---- MODULE Spec2Model ----
(***************************************************************************)
(* Model of switch_connect_batch.py: a command-line run that validates the *)
(* target address, resolves a command batch from --file or --commands,     *)
(* then prompts for a password up to three times, each time opening a      *)
(* remote session, sending every command and logging the outputs.          *)
(*                                                                         *)
(* Strings are sequences of one-character strings.  The remote session     *)
(* (netmiko), the terminal prompt (getpass), the clock and the filesystem  *)
(* are the environment: their results are chosen nondeterministically.     *)
(* The prompt always returns a password, session.disconnect() and writes   *)
(* to an already open log file do not raise, and the clock does not run    *)
(* backwards.  The locals of connect_and_run_commands hold their initial   *)
(* values whenever no call is in progress.                                 *)
(***************************************************************************)
EXTENDS Integers, Sequences, FiniteSets, TLC

(* ------------------------------ bounds --------------------------------- *)

\* total number of characters given in --file's content plus --commands
MaxLen == 3

\* number of distinct wall-clock seconds in which log files get created
MaxTs == 2

\* line 114: max_password_attempts = 3
max_password_attempts == 3

(* ------------------------------ strings -------------------------------- *)

Letters == {"a", "b"}
Whitespace == {" ", "\n"}
Chars == Letters \cup Whitespace \cup {","}

Strings(n) == UNION {[1..k -> Chars] : k \in 0..n}

\* the argument was not given on the command line (argparse default None)
NoArg == [given |-> FALSE, exists |-> FALSE, text |-> <<>>]

\* --commands TEXT
InlineArgs(n) == {NoArg} \cup {[given |-> TRUE, exists |-> TRUE, text |-> s] : s \in Strings(n)}

\* --file PATH, where PATH names no file, or a file holding the text
FileArgs(n) == {NoArg} \cup {[given |-> TRUE, exists |-> FALSE, text |-> <<>>]}
                 \cup {[given |-> TRUE, exists |-> TRUE, text |-> s] : s \in Strings(n)}

\* hosts as the dot-separated fields of --host; non-numeric fields are -1
Hosts == {<<10, 0, 0, 1>>, <<999, 999, 999, 999>>, <<-1>>}

\* the secret typed at the k-th prompt; the code never looks into it
Typed(k) == <<"secret", k>>

\* what the device answers to a command
Outputs == {<<"O", "K">>, <<"%">>}

Timestamps == 1..MaxTs

(* --------------------------- pure functions ---------------------------- *)

\* lines 18-24: ipaddress.ip_address accepts a dotted quad of octets
validate_ip(ip_str) ==
    /\ Len(ip_str) = 4
    /\ \A i \in 1..4 : ip_str[i] \in 0..255

RECURSIVE LStrip(_)
LStrip(s) == IF s # <<>> /\ Head(s) \in Whitespace THEN LStrip(Tail(s)) ELSE s

RECURSIVE RStrip(_)
RStrip(s) ==
    IF s # <<>> /\ s[Len(s)] \in Whitespace THEN RStrip(SubSeq(s, 1, Len(s) - 1)) ELSE s

\* Strip, had str.lstrip() been called
StripLeftOnly(s) == LStrip(s)

\* str.strip(): leading and trailing whitespace removed
Strip(s) == RStrip(LStrip(s))

\* str.split(sep): the pieces between the separators, always at least one
RECURSIVE SplitFrom(_, _, _)
SplitFrom(s, sep, cur) ==
    IF s = <<>> THEN <<cur>>
    ELSE IF Head(s) = sep THEN <<cur>> \o SplitFrom(Tail(s), sep, <<>>)
    ELSE SplitFrom(Tail(s), sep, Append(cur, Head(s)))

Split(s, sep) == SplitFrom(s, sep, <<>>)

\* iterating a text file: each line with its terminating newline, the last
\* line possibly without one; an empty file has no line
RECURSIVE LinesFrom(_, _)
LinesFrom(s, cur) ==
    IF s = <<>> THEN (IF cur = <<>> THEN <<>> ELSE <<cur>>)
    ELSE IF Head(s) = "\n" THEN <<Append(cur, "\n")>> \o LinesFrom(Tail(s), <<>>)
    ELSE LinesFrom(Tail(s), Append(cur, Head(s)))

Lines(s) == LinesFrom(s, <<>>)

\* StripKeep, had the comprehension no "if x.strip()"
RECURSIVE StripKeepUnfiltered(_)
StripKeepUnfiltered(pieces) ==
    IF pieces = <<>> THEN <<>>
    ELSE <<Strip(Head(pieces))>> \o StripKeepUnfiltered(Tail(pieces))

\* [x.strip() for x in pieces if x.strip()]
RECURSIVE StripKeep(_)
StripKeep(pieces) ==
    IF pieces = <<>> THEN <<>>
    ELSE IF Strip(Head(pieces)) # <<>>
         THEN <<Strip(Head(pieces))>> \o StripKeep(Tail(pieces))
         ELSE StripKeep(Tail(pieces))

\* the value load_commands returns and the diagnostic it prints ("" if none)
Ret(isNone, lst, msg) == [none |-> isNone, list |-> lst, err |-> msg]

\* load_commands, had args.commands been tested before args.file
load_commands_inline_first(file, cmds) ==
    IF cmds.given /\ cmds.text # <<>>
    THEN Ret(FALSE, StripKeep(Split(cmds.text, ",")), "")
    ELSE IF file.given
    THEN IF ~file.exists
         THEN Ret(TRUE, <<>>, "SourceNotFound")
         ELSE IF StripKeep(Lines(file.text)) = <<>>
              THEN Ret(TRUE, <<>>, "EmptyCommandSet")
              ELSE Ret(FALSE, StripKeep(Lines(file.text)), "")
    ELSE Ret(TRUE, <<>>, "NoCommandSourceProvided")

\* lines 27-49
load_commands(file, cmds) ==
    IF file.given
    THEN IF ~file.exists
         THEN Ret(TRUE, <<>>, "SourceNotFound")
         ELSE IF StripKeep(Lines(file.text)) = <<>>
              THEN Ret(TRUE, <<>>, "EmptyCommandSet")
              ELSE Ret(FALSE, StripKeep(Lines(file.text)), "")
    ELSE IF cmds.given /\ cmds.text # <<>>
         THEN Ret(FALSE, StripKeep(Split(cmds.text, ",")), "")
         ELSE Ret(TRUE, <<>>, "NoCommandSourceProvided")

\* Entry, had the output been written before its header
EntryOutputFirst(cmd, out) == out \o <<"\n--- ">> \o cmd \o <<" ---\n">> \o <<"\n">>

\* line 80: the text one log.write call writes
Entry(cmd, out) == <<"\n--- ">> \o cmd \o <<" ---\n">> \o out \o <<"\n">>

\* line 72: the log file's name
LogName(h, ts) == [host |-> h, stamp |-> ts]

(* ------------------------------- state --------------------------------- *)

VARIABLES
    host,          \* args.host
    argFile,       \* args.file together with the file it names
    argCommands,   \* args.commands
    pc,            \* position of the run in main / connect_and_run_commands
    commands,      \* main's commands: the value load_commands returned
    attempt,       \* main's loop variable
    password,      \* main's password: what the last prompt returned
    success,       \* main's success: what the last executor run returned
    console,       \* the diagnostics and reports printed so far
    prompts,       \* number of getpass prompts issued
    connects,      \* number of ConnectHandler calls made
    results,       \* outcome of each finished executor run, in order
    st,            \* lifecycle state of the current executor run
    devPassword,   \* device['password'] of the current executor run
    net_connect,   \* the current run's session: "none", "open" or "closed"
    leaked,        \* sessions opened by earlier steps and never disconnected
    log_file,      \* the current run's log file name, once derived
    logOpen,       \* the log file handle is open
    buf,           \* text written to the handle and not yet on disk
    disk,          \* the logs directory: file name -> text on disk
    idx,           \* position of the for loop in the batch
    output,        \* the current run's output variable
    replies,       \* outputs the session returned in the current run
    sent           \* commands handed to send_command in the current run

vars == <<host, argFile, argCommands, pc, commands, attempt, password, success,
          console, prompts, connects, results, st, devPassword, net_connect,
          leaked, log_file, logOpen, buf, disk, idx, output, replies, sent>>

inputVars == <<host, argFile, argCommands>>
mainVars == <<commands, attempt, password, success>>
countVars == <<prompts, connects>>
sessVars == <<st, devPassword, net_connect, leaked>>
logVars == <<log_file, logOpen, buf, disk>>
loopVars == <<idx, output, replies, sent>>

NoFile == [made |-> FALSE, name |-> LogName(<<>>, 0)]
NoCommands == [none |-> TRUE, list |-> <<>>]

Init ==
    /\ host \in Hosts
    /\ argFile \in FileArgs(MaxLen)
    /\ argCommands \in InlineArgs(MaxLen)
    /\ Len(argFile.text) + Len(argCommands.text) <= MaxLen
    /\ pc = "validate"
    /\ commands = NoCommands
    /\ attempt = 0
    /\ password = <<>>
    /\ success = FALSE
    /\ console = <<>>
    /\ prompts = 0
    /\ connects = 0
    /\ results = <<>>
    /\ st = "Idle"
    /\ devPassword = <<>>
    /\ net_connect = "none"
    /\ leaked = 0
    /\ log_file = NoFile
    /\ logOpen = FALSE
    /\ buf = <<>>
    /\ disk = <<>>
    /\ idx = 0
    /\ output = <<>>
    /\ replies = <<>>
    /\ sent = <<>>

(* ------------------------------- main ---------------------------------- *)

\* lines 106-108
ValidateHost ==
    /\ pc = "validate"
    /\ IF validate_ip(host)
       THEN /\ pc' = "load"
            /\ console' = console
       ELSE /\ pc' = "done"
            /\ console' = Append(console, "InvalidTargetAddress")
    /\ UNCHANGED <<inputVars, mainVars, countVars, results, sessVars, logVars, loopVars>>

\* LoadCommands, had line 111 tested "commands is None"
LoadCommandsNoneOnly ==
    /\ pc = "load"
    /\ LET r == load_commands(argFile, argCommands) IN
       /\ commands' = [none |-> r.none, list |-> r.list]
       /\ console' = IF r.err = "" THEN console ELSE Append(console, r.err)
       /\ IF r.none
          THEN /\ pc' = "done"
               /\ attempt' = attempt
          ELSE /\ pc' = "prompt"
               /\ attempt' = 1
    /\ UNCHANGED <<inputVars, password, success, countVars, results, sessVars, logVars, loopVars>>

\* lines 110-112, and entry into the loop of line 115
LoadCommands ==
    /\ pc = "load"
    /\ LET r == load_commands(argFile, argCommands) IN
       /\ commands' = [none |-> r.none, list |-> r.list]
       /\ console' = IF r.err = "" THEN console ELSE Append(console, r.err)
       /\ IF r.none \/ r.list = <<>>
          THEN /\ pc' = "done"
               /\ attempt' = attempt
          ELSE /\ pc' = "prompt"
               /\ attempt' = 1
    /\ UNCHANGED <<inputVars, password, success, countVars, results, sessVars, logVars, loopVars>>

\* line 116
Prompt ==
    /\ pc = "prompt"
    /\ password' = Typed(prompts + 1)
    /\ prompts' = prompts + 1
    /\ pc' = "call"
    /\ UNCHANGED <<inputVars, commands, attempt, success, console, connects, results,
                   sessVars, logVars, loopVars>>

\* Call, had the device record been built from the first password typed
CallStalePassword ==
    /\ pc = "call"
    /\ devPassword' = Typed(1)
    /\ st' = "Connecting"
    /\ connects' = connects + 1
    /\ pc' = "connect"
    /\ UNCHANGED <<inputVars, mainVars, console, prompts, results, net_connect, leaked,
                   logVars, loopVars>>

\* lines 117, 52-68: the call builds the device record and starts connecting
Call ==
    /\ pc = "call"
    /\ devPassword' = password
    /\ st' = "Connecting"
    /\ connects' = connects + 1
    /\ pc' = "connect"
    /\ UNCHANGED <<inputVars, mainVars, console, prompts, results, net_connect, leaked,
                   logVars, loopVars>>

\* connect_and_run_commands returns: its locals are gone; a session that
\* was opened and not disconnected stays open with nothing referring to it
Return(ok) ==
    /\ success' = ok
    /\ pc' = "check"
    /\ leaked' = IF net_connect = "open" THEN leaked + 1 ELSE leaked
    /\ net_connect' = "none"
    /\ devPassword' = <<>>
    /\ log_file' = NoFile
    /\ logOpen' = FALSE
    /\ buf' = <<>>
    /\ idx' = 0
    /\ output' = <<>>
    /\ replies' = <<>>
    /\ sent' = <<>>

\* Handle, had the run not been marked as failed
HandleNotFailed(kind) ==
    /\ results' = Append(results, kind)
    /\ console' = Append(console, CASE kind = "timeout" -> "ConnectionTimeout"
                                    [] kind = "auth" -> "AuthenticationFailed"
                                    [] OTHER -> "UnexpectedTransportError")
    /\ st' = st
    /\ Return(FALSE)

\* lines 86-94: an exception handler prints its diagnostic and returns False
Handle(kind) ==
    /\ results' = Append(results, kind)
    /\ console' = Append(console, CASE kind = "timeout" -> "ConnectionTimeout"
                                    [] kind = "auth" -> "AuthenticationFailed"
                                    [] OTHER -> "UnexpectedTransportError")
    /\ st' = "Failed"
    /\ Return(FALSE)

\* line 69, ConnectHandler returns a session
ConnectOk ==
    /\ pc = "connect"
    /\ net_connect' = "open"
    /\ st' = "Connected"
    /\ pc' = "mklog"
    /\ UNCHANGED <<inputVars, mainVars, console, countVars, results, devPassword, leaked,
                   logVars, loopVars>>

\* line 69, ConnectHandler raises
ConnectFail ==
    /\ pc = "connect"
    /\ \E kind \in {"timeout", "auth", "error"} : Handle(kind)
    /\ UNCHANGED <<inputVars, commands, attempt, password, countVars, disk>>

\* the second in which the latest log file was created (0: none yet)
LastStamp ==
    IF DOMAIN disk = {} THEN 0
    ELSE CHOOSE t \in Timestamps :
           /\ \E n \in DOMAIN disk : n.stamp = t
           /\ \A n \in DOMAIN disk : n.stamp <= t

\* line 71: datetime.now() does not run backwards, so the second read is
\* that of the latest log file or a later one; seconds are numbered in the
\* order in which log files are created in them
Now == {t \in Timestamps : t = LastStamp \/ t = LastStamp + 1}

\* OpenLog, had the loop resumed at a position kept across attempts
OpenLogResume ==
    /\ pc = "mklog"
    /\ \E ts \in Now :
         LET name == LogName(host, ts) IN
         /\ log_file' = [made |-> TRUE, name |-> name]
         /\ disk' = [n \in DOMAIN disk \cup {name} |-> IF n = name THEN <<>> ELSE disk[n]]
    /\ logOpen' = TRUE
    /\ buf' = <<>>
    /\ idx' = attempt
    /\ st' = "Executing"
    /\ pc' = "loop"
    /\ UNCHANGED <<inputVars, mainVars, console, countVars, results, devPassword,
                   net_connect, leaked, output, replies, sent>>

\* lines 71-75: the name is derived, the directory made, the file created
\* or truncated
OpenLog ==
    /\ pc = "mklog"
    /\ \E ts \in Now :
         LET name == LogName(host, ts) IN
         /\ log_file' = [made |-> TRUE, name |-> name]
         /\ disk' = [n \in DOMAIN disk \cup {name} |-> IF n = name THEN <<>> ELSE disk[n]]
    /\ logOpen' = TRUE
    /\ buf' = <<>>
    /\ idx' = 1
    /\ st' = "Executing"
    /\ pc' = "loop"
    /\ UNCHANGED <<inputVars, mainVars, console, countVars, results, devPassword,
                   net_connect, leaked, output, replies, sent>>

\* lines 73, 75: os.makedirs or open raises; nothing is created
OpenLogFail ==
    /\ pc = "mklog"
    /\ Handle("error")
    /\ UNCHANGED <<inputVars, commands, attempt, password, countVars, disk>>

\* the text of the log file once the handle's buffer is written out
Flushed == [disk EXCEPT ![log_file.name] = @ \o buf]

\* line 78, send_command returns the device's output
SendOk ==
    /\ pc = "loop"
    /\ idx <= Len(commands.list)
    /\ \E out \in Outputs :
         /\ output' = out
         /\ replies' = Append(replies, out)
    /\ sent' = Append(sent, commands.list[idx])
    /\ pc' = "write"
    /\ UNCHANGED <<inputVars, mainVars, console, countVars, results, sessVars, logVars, idx>>

\* SendFail, had the failure of one command been caught inside the loop
SendFailContinue ==
    /\ pc = "loop"
    /\ idx <= Len(commands.list)
    /\ sent' = Append(sent, commands.list[idx])
    /\ idx' = idx + 1
    /\ console' = Append(console, "UnexpectedTransportError")
    /\ UNCHANGED <<inputVars, mainVars, countVars, results, sessVars, logVars, pc,
                   output, replies>>

\* line 78, send_command raises: leaving the with block closes the file,
\* then the handler of line 92 runs
SendFail ==
    /\ pc = "loop"
    /\ idx <= Len(commands.list)
    /\ disk' = Flushed
    /\ Handle("error")
    /\ UNCHANGED <<inputVars, commands, attempt, password, countVars>>

\* line 80: the entry goes to the handle's buffer; the buffer is written
\* out at once only when it is full
WriteLog ==
    /\ pc = "write"
    /\ \/ /\ buf' = buf \o Entry(commands.list[idx], output)
          /\ disk' = disk
       \/ /\ buf' = <<>>
          /\ disk' = [disk EXCEPT ![log_file.name] = @ \o buf \o Entry(commands.list[idx], output)]
    /\ idx' = idx + 1
    /\ pc' = "loop"
    /\ UNCHANGED <<inputVars, mainVars, console, countVars, results, sessVars, log_file,
                   logOpen, output, replies, sent>>

\* lines 75, 82: the loop is over, the with block closes the file
CloseLog ==
    /\ pc = "loop"
    /\ idx > Len(commands.list)
    /\ disk' = Flushed
    /\ buf' = <<>>
    /\ logOpen' = FALSE
    /\ console' = Append(console, "Saved")
    /\ st' = "Disconnecting"
    /\ pc' = "disconnect"
    /\ UNCHANGED <<inputVars, mainVars, countVars, results, devPassword, net_connect,
                   leaked, log_file, loopVars>>

\* line 83
Disconnect ==
    /\ pc = "disconnect"
    /\ net_connect' = "closed"
    /\ st' = "Closed"
    /\ pc' = "return"
    /\ UNCHANGED <<inputVars, mainVars, console, countVars, results, devPassword,
                   leaked, logVars, loopVars>>

\* line 84
ReturnTrue ==
    /\ pc = "return"
    /\ results' = Append(results, "ok")
    /\ Return(TRUE)
    /\ UNCHANGED <<inputVars, commands, attempt, password, console, countVars, st, disk>>

\* CheckResult, had line 120 been a plain else
CheckResultAlwaysReport ==
    /\ pc = "check"
    /\ IF success
       THEN /\ pc' = "done"
            /\ UNCHANGED <<attempt, console>>
       ELSE /\ console' = Append(console, "MaxAuthAttemptsExceeded")
            /\ IF attempt = max_password_attempts
               THEN pc' = "done" /\ attempt' = attempt
               ELSE pc' = "prompt" /\ attempt' = attempt + 1
    /\ UNCHANGED <<inputVars, commands, password, success, countVars, results, sessVars,
                   logVars, loopVars>>

\* CheckResult, had the break of line 119 been missing
CheckResultNoBreak ==
    /\ pc = "check"
    /\ IF attempt = max_password_attempts
       THEN /\ pc' = "done"
            /\ attempt' = attempt
            /\ console' = IF success THEN console
                          ELSE Append(console, "MaxAuthAttemptsExceeded")
       ELSE /\ pc' = "prompt"
            /\ attempt' = attempt + 1
            /\ console' = console
    /\ UNCHANGED <<inputVars, commands, password, success, countVars, results, sessVars,
                   logVars, loopVars>>

\* CheckResult, had only authentication failures been retried
CheckResultAuthOnly ==
    /\ pc = "check"
    /\ IF success
       THEN /\ pc' = "done"
            /\ UNCHANGED <<attempt, console>>
       ELSE IF attempt = max_password_attempts \/ results[Len(results)] # "auth"
       THEN /\ pc' = "done"
            /\ console' = Append(console, "MaxAuthAttemptsExceeded")
            /\ attempt' = attempt
       ELSE /\ pc' = "prompt"
            /\ attempt' = attempt + 1
            /\ console' = console
    /\ UNCHANGED <<inputVars, commands, password, success, countVars, results, sessVars,
                   logVars, loopVars>>

\* CheckResult, had the loop not counted its attempts
CheckResultNoCount ==
    /\ pc = "check"
    /\ IF success
       THEN /\ pc' = "done"
            /\ UNCHANGED <<attempt, console>>
       ELSE IF attempt = max_password_attempts
       THEN /\ pc' = "done"
            /\ console' = Append(console, "MaxAuthAttemptsExceeded")
            /\ attempt' = attempt
       ELSE /\ pc' = "prompt"
            /\ attempt' = attempt
            /\ console' = console
    /\ UNCHANGED <<inputVars, commands, password, success, countVars, results, sessVars,
                   logVars, loopVars>>

\* lines 115, 118-121
CheckResult ==
    /\ pc = "check"
    /\ IF success
       THEN /\ pc' = "done"
            /\ UNCHANGED <<attempt, console>>
       ELSE IF attempt = max_password_attempts
       THEN /\ pc' = "done"
            /\ console' = Append(console, "MaxAuthAttemptsExceeded")
            /\ attempt' = attempt
       ELSE /\ pc' = "prompt"
            /\ attempt' = attempt + 1
            /\ console' = console
    /\ UNCHANGED <<inputVars, commands, password, success, countVars, results, sessVars,
                   logVars, loopVars>>

Next ==
    \/ ValidateHost
    \/ LoadCommands
    \/ Prompt
    \/ Call
    \/ ConnectOk
    \/ ConnectFail
    \/ OpenLog
    \/ OpenLogFail
    \/ SendOk
    \/ SendFail
    \/ WriteLog
    \/ CloseLog
    \/ Disconnect
    \/ ReturnTrue
    \/ CheckResult

Spec == Init /\ [][Next]_vars

\* the program is single-threaded and every blocking call returns or
\* raises: a step that can be taken is taken
FairSpec == Spec /\ WF_vars(Next)

(* ------------------------------ claims --------------------------------- *)

\* number of times a message was printed
RECURSIVE Count(_, _)
Count(seq, x) ==
    IF seq = <<>> THEN 0
    ELSE (IF Head(seq) = x THEN 1 ELSE 0) + Count(Tail(seq), x)

\* no executor run is in progress
BetweenRuns == pc \in {"prompt", "call", "check", "done"}

AllAuth == \A i \in 1..Len(results) : results[i] = "auth"

\* C1: in a run that reached the retry loop and whose every connection
\* attempt failed with an authentication fault, no log file exists at any
\* point, and once the run is over there were exactly 3 prompts and 3
\* attempts, MaxAuthAttemptsExceeded was printed exactly once, as the last
\* report, and nothing more can happen.
C1_AuthExhaustion ==
    (attempt >= 1 /\ AllAuth /\ (BetweenRuns \/ pc = "connect")) =>
        /\ DOMAIN disk = {}
        /\ pc = "done" =>
             /\ prompts = max_password_attempts
             /\ connects = max_password_attempts
             /\ Len(results) = max_password_attempts
             /\ Count(console, "MaxAuthAttemptsExceeded") = 1
             /\ console[Len(console)] = "MaxAuthAttemptsExceeded"
             /\ ~ENABLED Next

C1_Witness ==
    pc = "done" /\ results = <<"auth", "auth", "auth">>

\* the failures of command resolution, read off the arguments
NoSource == ~argFile.given /\ (~argCommands.given \/ argCommands.text = <<>>)
FileMissing == argFile.given /\ ~argFile.exists
FileBlank ==
    /\ argFile.given
    /\ argFile.exists
    /\ \A i \in 1..Len(argFile.text) : argFile.text[i] \in Whitespace
InlineBlankText ==
    \A i \in 1..Len(argCommands.text) : argCommands.text[i] \in Whitespace \cup {","}
InlineBlank == ~argFile.given /\ argCommands.given /\ InlineBlankText
ResolutionFails == NoSource \/ FileMissing \/ FileBlank \/ InlineBlank

\* C2: with an invalid target address or a failing command resolution the
\* run never leaves validation and resolution except to end: no password
\* is prompted for and no connection is attempted.
C2_NoPromptOnBadInput ==
    (~validate_ip(host) \/ ResolutionFails) =>
        /\ prompts = 0
        /\ connects = 0
        /\ pc \in {"validate", "load", "done"}
        /\ pc = "done" \/ ENABLED Next

C2_Witness ==
    /\ pc = "done"
    /\ validate_ip(host)
    /\ InlineBlank
    /\ argCommands.text # <<>>
    /\ prompts = 0

MaxReported == Count(console, "MaxAuthAttemptsExceeded") >= 1

\* C3: a successful executor run is the last one: once a run has succeeded
\* the program only leaves the loop, with no further prompt or connection
\* attempt; and MaxAuthAttemptsExceeded has been reported exactly when the
\* run is over after 3 failed attempts.
C3_SuccessEndsLoop ==
    /\ \A i \in 1..Len(results) :
         results[i] = "ok" =>
            /\ i = Len(results)
            /\ pc \in {"check", "done"}
            /\ prompts = i
            /\ connects = i
    /\ MaxReported <=>
         /\ pc = "done"
         /\ Len(results) = max_password_attempts
         /\ \A i \in 1..Len(results) : results[i] # "ok"

C3_Witness ==
    pc = "done" /\ Len(results) = 3 /\ results[3] = "ok" /\ ~MaxReported

\* C4: at most 3 prompts are issued; connection attempts and prompts
\* alternate, the prompt first, so that each attempt has its own prompt;
\* and the attempt under way uses the password its prompt returned.
C4_AttemptsCapped ==
    /\ prompts <= max_password_attempts
    /\ connects <= prompts
    /\ prompts <= connects + 1
    /\ (prompts = connects + 1) <=> (pc = "call")
    /\ pc \in {"call", "connect", "mklog", "loop", "write", "disconnect", "return"} =>
          password = Typed(prompts)
    /\ pc \in {"connect", "mklog", "loop", "write", "disconnect", "return"} =>
          devPassword = Typed(prompts)

C4_Witness ==
    pc = "connect" /\ prompts = 3 /\ connects = 3 /\ devPassword = Typed(3)

\* the text from position pos on is one transcript entry per command, in
\* order: a header holding the command, then the output returned for it
RECURSIVE Transcript(_, _, _, _)
Transcript(text, pos, cmds, outs) ==
    IF cmds = <<>> THEN pos = Len(text) + 1
    ELSE LET cmd == Head(cmds)
             out == Head(outs)
             n == Len(cmd)
             m == Len(out)
         IN /\ pos + n + m + 2 <= Len(text)
            /\ text[pos] = "\n--- "
            /\ SubSeq(text, pos + 1, pos + n) = cmd
            /\ text[pos + n + 1] = " ---\n"
            /\ SubSeq(text, pos + n + 2, pos + n + m + 1) = out
            /\ text[pos + n + m + 2] = "\n"
            /\ Transcript(text, pos + n + m + 3, Tail(cmds), Tail(outs))

\* C5: when an executor run returns success, the log file it wrote holds
\* exactly one entry per command of the batch, in the batch's order, each
\* with the command's text followed by the output the session returned.
C5_TranscriptMatchesBatch ==
    [][(pc = "return" /\ pc' = "check") =>
          /\ success'
          /\ Len(replies) = Len(commands.list)
          /\ log_file.name \in DOMAIN disk'
          /\ Transcript(disk'[log_file.name], 1, commands.list, replies)]_vars

C5_Witness ==
    /\ pc = "check"
    /\ success
    /\ Len(commands.list) = 2
    /\ commands.list[1] # commands.list[2]
    /\ \E n \in DOMAIN disk : disk[n] = Entry(commands.list[1], <<"%">>)
                                         \o Entry(commands.list[2], <<"O", "K">>)

\* main has called load_commands
Resolved == validate_ip(host) /\ pc \notin {"validate", "load"}

BothGiven == argFile.given /\ argCommands.given /\ argCommands.text # <<>>

\* C6 as stated: with both --commands and --file given, the batch is the
\* one derived from the inline string (checked where each of the two
\* yields a command).
C6_InlinePrecedence ==
    (Resolved /\ BothGiven /\ ~FileMissing /\ ~FileBlank /\ ~InlineBlankText) =>
        /\ ~commands.none
        /\ commands.list = StripKeep(Split(argCommands.text, ","))

\* C6 amended: with both --commands and --file given, the file decides:
\* the batch is the one derived from the file's lines, and when the file
\* is missing or holds no command the resolution fails, the inline string
\* being ignored either way.
C6_FilePrecedence ==
    (Resolved /\ BothGiven) =>
        IF FileMissing \/ FileBlank
        THEN commands.none /\ pc = "done" /\ prompts = 0
        ELSE ~commands.none /\ commands.list = StripKeep(Lines(argFile.text))

C6_Witness ==
    /\ pc = "prompt"
    /\ BothGiven
    /\ StripKeep(Split(argCommands.text, ",")) # <<>>
    /\ StripKeep(Split(argCommands.text, ",")) # StripKeep(Lines(argFile.text))
    /\ commands.list = StripKeep(Lines(argFile.text))

\* C7: whenever no non-empty batch was resolved, the process has exited
\* having printed an error diagnostic and without any network action.
C7_ErrorPrintedOnEmptyBatch ==
    (Resolved /\ (commands.none \/ commands.list = <<>>)) =>
        /\ pc = "done"
        /\ Len(console) >= 1
        /\ prompts = 0
        /\ connects = 0

\* C8: between executor runs the log files on disk are exactly those of
\* the runs reported successful, one each; a run reported as failure has
\* left none.
C8_LogOnlyOnSuccess ==
    BetweenRuns => Cardinality(DOMAIN disk) = Count(results, "ok")

\* a piece with a character that is not whitespace
NonBlank(p) == \E i \in 1..Len(p) : p[i] \notin Whitespace

\* a piece from its first to its last non-whitespace character
Trimmed(p) ==
    LET nz == {i \in 1..Len(p) : p[i] \notin Whitespace} IN
    IF nz = {} THEN <<>>
    ELSE SubSeq(p, CHOOSE i \in nz : \A j \in nz : i <= j,
                   CHOOSE i \in nz : \A j \in nz : j <= i)

\* batch is the trimmed non-blank pieces, in the order of the pieces
IsBatchOf(batch, pieces) ==
    LET kept == {i \in 1..Len(pieces) : NonBlank(pieces[i])} IN
    /\ Len(batch) = Cardinality(kept)
    /\ \A i \in kept : batch[Cardinality({j \in kept : j <= i})] = Trimmed(pieces[i])

RECURSIVE Join(_, _)
Join(pieces, sep) ==
    IF Len(pieces) = 1 THEN pieces[1]
    ELSE pieces[1] \o <<sep>> \o Join(Tail(pieces), sep)

RECURSIVE Concat(_)
Concat(pieces) == IF pieces = <<>> THEN <<>> ELSE Head(pieces) \o Concat(Tail(pieces))

\* pieces are the comma-separated pieces of text
ArePiecesOf(pieces, text) ==
    /\ Len(pieces) >= 1
    /\ \A i \in 1..Len(pieces) : \A k \in 1..Len(pieces[i]) : pieces[i][k] # ","
    /\ Join(pieces, ",") = text

\* lines are the lines of text
AreLinesOf(lines, text) ==
    /\ Concat(lines) = text
    /\ \A i \in 1..Len(lines) :
         /\ lines[i] # <<>>
         /\ \A k \in 1..(Len(lines[i]) - 1) : lines[i][k] # "\n"
         /\ i < Len(lines) => lines[i][Len(lines[i])] = "\n"

\* C9: the batch resolved from a file is the sequence, in order, of its
\* lines trimmed, blank lines left out; the batch resolved from an inline
\* string is the same of its comma-separated pieces; a file without a
\* non-blank line fails with EmptyCommandSet and a path that names no file
\* fails with SourceNotFound.
C9_BatchIsTrimmedPieces ==
    Resolved =>
        /\ FileMissing => commands.none /\ console[1] = "SourceNotFound"
        /\ (argFile.given /\ argFile.exists) =>
              /\ AreLinesOf(Lines(argFile.text), argFile.text)
              /\ IF \E i \in 1..Len(argFile.text) : argFile.text[i] \notin Whitespace
                 THEN ~commands.none /\ IsBatchOf(commands.list, Lines(argFile.text))
                 ELSE commands.none /\ console[1] = "EmptyCommandSet"
        /\ (~argFile.given /\ argCommands.given /\ argCommands.text # <<>>) =>
              /\ ArePiecesOf(Split(argCommands.text, ","), argCommands.text)
              /\ ~commands.none
              /\ IsBatchOf(commands.list, Split(argCommands.text, ","))

C9_Witness ==
    /\ Resolved
    /\ ~argFile.given
    /\ argCommands.text = <<"b", ",", "a">>
    /\ commands.list = << <<"b">>, <<"a">> >>

\* C10: once a password has been prompted for or a connection attempted,
\* the batch holds at least one command, and every command is non-empty
\* and has no whitespace at either end.
C10_BatchNonEmpty ==
    (prompts >= 1 \/ connects >= 1) =>
        /\ ~commands.none
        /\ Len(commands.list) >= 1
        /\ \A i \in 1..Len(commands.list) :
             LET cmd == commands.list[i] IN
             /\ cmd # <<>>
             /\ cmd[1] \notin Whitespace
             /\ cmd[Len(cmd)] \notin Whitespace

C10_Witness ==
    /\ pc = "connect"
    /\ ~argFile.given
    /\ argCommands.text = <<" ", "a", ",">>
    /\ commands.list = << <<"a">> >>

\* C11: when command i+1 has been handed to the session, the log file on
\* disk already holds the entries of commands 1..i.
C11_EntryDurableBeforeNextSend ==
    (pc = "write" /\ idx >= 2) =>
        Transcript(disk[log_file.name], 1,
                   SubSeq(commands.list, 1, idx - 1), SubSeq(replies, 1, idx - 1))

\* the transitions of the lifecycle as the state machine names them
ClaimedStep(a, b) ==
    <<a, b>> \in {<<"Idle", "Connecting">>, <<"Connecting", "Connected">>,
                  <<"Connected", "Executing">>, <<"Executing", "Disconnecting">>,
                  <<"Disconnecting", "Closed">>,
                  <<"Connecting", "Failed">>, <<"Executing", "Failed">>}

C13_SendFailureAborts ==
    /\ [](pc \in {"loop", "write", "disconnect", "return"} => Len(replies) = Len(sent))
    /\ [][(pc = "loop" /\ pc' = "check") =>
             /\ ~success'
             /\ st' = "Failed"
             /\ results' = Append(results, "error")
             /\ sent = SubSeq(commands.list, 1, idx - 1)
             /\ Transcript(disk'[log_file.name], 1,
                           SubSeq(commands.list, 1, idx - 1), replies)]_vars

C13_Witness ==
    /\ pc = "check"
    /\ ~success
    /\ Len(commands.list) = 2
    /\ results = <<"error">>
    /\ \E n \in DOMAIN disk : disk[n] = Entry(commands.list[1], <<"O", "K">>)

\* C14: after an executor run that failed, whatever the failure, with
\* fewer than 3 attempts made, the program's next step goes to the password
\* prompt, the step after that prompts, and the one after that starts a new
\* connection attempt; none of these steps can be skipped or is blocked.
C14_RetryOnAnyFailure ==
    /\ [](pc \in {"check", "prompt", "call"} => ENABLED Next)
    /\ [][(pc = "check" /\ ~success /\ attempt < max_password_attempts) =>
             /\ results[Len(results)] \in {"timeout", "auth", "error"}
             /\ pc' = "prompt"
             /\ attempt' = attempt + 1]_vars
    /\ [][pc = "prompt" => (pc' = "call" /\ prompts' = prompts + 1)]_vars
    /\ [][pc = "call" => (pc' = "connect" /\ connects' = connects + 1
                          /\ st' = "Connecting")]_vars

C14_Witness ==
    /\ pc = "connect"
    /\ results = <<"timeout", "error">>
    /\ prompts = 3
    /\ connects = 3

\* sessions that are open: the current run's, and those earlier steps left
OpenSessions == leaked + (IF net_connect = "open" THEN 1 ELSE 0)

\* C15: no executor run has returned leaving the session it opened not
\* disconnected, so that at most one session is open at any time.
C15_SessionsClosed ==
    /\ leaked = 0
    /\ OpenSessions <= 1

\* C16: the commands sent in the current session are the first ones of the
\* batch, in order, as many as the loop has gone through, none before the
\* loop starts; and the batch, once resolved, never changes, so every
\* attempt sends it again from its first command.
C16_SentIsPrefixOfBatch ==
    /\ [](/\ Len(sent) <= Len(commands.list)
          /\ sent = SubSeq(commands.list, 1, Len(sent))
          /\ pc \in {"connect", "mklog"} => sent = <<>>
          /\ pc = "loop" => Len(sent) = idx - 1
          /\ pc = "write" => Len(sent) = idx)
    /\ [][Resolved => commands' = commands]_vars

C16_Witness ==
    /\ pc = "write"
    /\ attempt = 2
    /\ sent = <<commands.list[1]>>
    /\ \E n \in DOMAIN disk :
         n # log_file.name /\ disk[n] = Entry(commands.list[1], <<"%">>)

\* C17: every run ends, whatever its inputs and the outcome of each
\* attempt, and never makes more than 3 connection attempts.
C17_Terminates ==
    /\ <>(pc = "done")
    /\ [](connects <= max_password_attempts)

C17_Witness ==
    /\ pc = "done"
    /\ connects = 3
    /\ results = <<"timeout", "error", "auth">>

====
